---- MODULE Spec2Model ----
(***************************************************************************)
(* Commute Check: the traffic-cache refresh coordinator of server.js, the  *)
(* all-crossings fetch of traffic.js, the reading store of db.js and the   *)
(* limiter of manual refreshes of the page's app.js.                       *)
(*                                                                         *)
(* A nullable JavaScript value is modelled as a set with at most one       *)
(* element: {} is null, {v} is the value v.  Time is in milliseconds.      *)
(***************************************************************************)
EXTENDS Integers, Sequences, FiniteSets, TLC

VARIABLES
    configured,    \* traffic.isConfigured(): is GOOGLE_MAPS_API_KEY set
    now,           \* the wall clock, Date.now()
    nextTick,      \* when the setInterval timer is next due ({}: no timer)
    trafficCache,  \* server.js: the trafficCache singleton
    runs,          \* the refreshTrafficData() invocations, by promise id
    requests,      \* the GET /api/crossings requests
    readings,      \* db.js: the rows of table readings, in insertion order
    settled,       \* how the refreshTrafficData run that ended last ended
    batch,         \* one call of fetchAllTravelTimes, crossing by crossing
    reply,         \* the last answer of the history, readings and stats routes
    refreshTimestamps,  \* app.js: the manual refreshes the limiter remembers
    cooldownUntil,      \* app.js: when the cooldown ends ({}: null)
    refreshBtn,         \* app.js: the refresh button, its property disabled
    cooldownTimers,     \* app.js: when the pending updateCooldown timeouts are due
    manualCalls,        \* app.js: how many times manualRefresh has been called
    manualFetches       \* app.js: when manualRefresh has called fetchCrossings

\* The state of the page in the browser
clientVars ==
    <<refreshTimestamps, cooldownUntil, refreshBtn, cooldownTimers, manualCalls,
      manualFetches>>

vars == <<configured, now, nextTick, trafficCache, runs, requests, readings,
          settled, batch, reply, clientVars>>

----------------------------------------------------------------------------
(* Bounds of the model *)

MaxClockSteps == 1      \* how many times the clock advances
MaxRuns == 4            \* refreshTrafficData invocations in one behaviour
MaxRequests == 2        \* GET /api/crossings requests in one behaviour
StartMs == 500          \* the clock at process start
ClockStep == 600000     \* one advance of the clock, in ms

----------------------------------------------------------------------------
(* traffic.js *)

ROUTES ==
    <<"gwb-into", "gwb-out", "lincoln-into", "lincoln-out",
      "holland-into", "holland-out">>

RouteIds == {ROUTES[i] : i \in 1..Len(ROUTES)}

Some(v) == {v}
Null == {}
TheValue(opt) == CHOOSE v \in opt : TRUE

\* Math.round of a non-negative quotient n / d
RoundDiv(n, d) == (2 * n + d) \div (2 * d)

\* What the Directions API can answer for one crossing: the fetch throws, or
\* a JSON body with a status and routes; a route is its sequence of legs.
Leg(inTraffic, plain) == [duration_in_traffic |-> inTraffic, duration |-> plain]

ResponseSamples ==
    { [kind |-> "json", status |-> "OK",
       routes |-> << <<Leg(Some(400), 300), Leg(Null, 320)>> >>],
      [kind |-> "json", status |-> "OVER_QUERY_LIMIT", routes |-> <<>>],
      [kind |-> "json", status |-> "OK", routes |-> <<>>],
      [kind |-> "throw", message |-> "fetch failed"] }

RECURSIVE SumLegs(_)
SumLegs(legs) ==
    IF legs = <<>> THEN 0
    ELSE (IF Head(legs).duration_in_traffic # Null
          THEN TheValue(Head(legs).duration_in_traffic)
          ELSE Head(legs).duration) + SumLegs(Tail(legs))

\* fetchTravelTime: the value it resolves to, or the Error it throws
Returned(v) == [threw |-> FALSE, value |-> v]
Thrown(msg) == [threw |-> TRUE, message |-> msg]

fetchTravelTime(crossingId, response, at) ==
    IF crossingId \notin RouteIds THEN Thrown("Unknown crossing")
    ELSE IF response.kind = "throw" THEN Thrown(response.message)
    ELSE IF response.status # "OK" THEN Thrown("API error: " \o response.status)
    ELSE IF Len(response.routes) = 0 THEN Thrown("No routes found")
    ELSE IF Len(response.routes[1]) = 0 THEN Thrown("No route legs found")
    ELSE Returned([crossingId |-> crossingId,
                   waitTime |-> Some(RoundDiv(SumLegs(response.routes[1]), 60)),
                   error |-> Null,
                   timestamp |-> at])

\* One turn of the loop of fetchAllTravelTimes: the try and its catch
FetchOne(crossingId, response, at) ==
    LET r == fetchTravelTime(crossingId, response, at)
    IN  IF r.threw
        THEN [crossingId |-> crossingId, waitTime |-> Null,
              error |-> Some(r.message), timestamp |-> at]
        ELSE r.value

\* fetchAllTravelTimes crossing by crossing.  A call in progress is its local
\* array results, the crossingIds the loop has still to visit, the responses
\* the API has served so far, and whether an exception has left the function.
NoBatch == [results |-> <<>>, crossingIds |-> <<>>, served |-> <<>>, threw |-> FALSE]

NewBatch == [results |-> <<>>, crossingIds |-> ROUTES, served |-> <<>>, threw |-> FALSE]

\* LoopTurn without the try and catch: an exception leaves fetchAllTravelTimes
LoopTurnNoCatch(b, response, at) ==
    IF fetchTravelTime(Head(b.crossingIds), response, at).threw
    THEN [b EXCEPT !.threw = TRUE]
    ELSE [results |-> Append(b.results,
                             fetchTravelTime(Head(b.crossingIds), response, at).value),
          crossingIds |-> Tail(b.crossingIds),
          served |-> Append(b.served, response),
          threw |-> b.threw]

\* One turn of the for loop: await fetchTravelTime in its try, with the catch
LoopTurn(b, response, at) ==
    [results |-> Append(b.results, FetchOne(Head(b.crossingIds), response, at)),
     crossingIds |-> Tail(b.crossingIds),
     served |-> Append(b.served, response),
     threw |-> b.threw]

\* fetchAllTravelTimes as a whole: responses and times are functions on
\* 1..Len(ROUTES), giving each crossing's response and its completion time
fetchAllTravelTimes(responses, times) ==
    [i \in 1..Len(ROUTES) |-> FetchOne(ROUTES[i], responses[i], times[i])]

isConfigured == configured

----------------------------------------------------------------------------
(* db.js *)

\* The local-time string 'YYYY-MM-DD HH:MM:SS' built by addReading, as the
\* number of whole seconds it denotes: the milliseconds are dropped
LocalTimestamp(timestamp) == timestamp \div 1000

\* addReading called without its third argument: timestamp = new Date()
addReadingNow(rows, crossingId, waitTime, timestamp) ==
    Append(rows, [id |-> Len(rows) + 1,
                  crossing_id |-> crossingId,
                  wait_time |-> waitTime,
                  recorded_at |-> LocalTimestamp(now)])

\* addReading as an upsert: a row of the same crossing is overwritten
addReadingUpsert(rows, crossingId, waitTime, timestamp) ==
    IF \A k \in 1..Len(rows) : rows[k].crossing_id # crossingId
    THEN Append(rows, [id |-> Len(rows) + 1,
                       crossing_id |-> crossingId,
                       wait_time |-> waitTime,
                       recorded_at |-> LocalTimestamp(timestamp)])
    ELSE [k \in 1..Len(rows) |->
             IF rows[k].crossing_id = crossingId
             THEN [rows[k] EXCEPT !.wait_time = waitTime,
                                  !.recorded_at = LocalTimestamp(timestamp)]
             ELSE rows[k]]

\* addReading: the table after insertReading.run; AUTOINCREMENT numbers the rows
addReading(rows, crossingId, waitTime, timestamp) ==
    Append(rows, [id |-> Len(rows) + 1,
                  crossing_id |-> crossingId,
                  wait_time |-> waitTime,
                  recorded_at |-> LocalTimestamp(timestamp)])

----------------------------------------------------------------------------
(* server.js *)

CROSSINGS ==
    <<"gwb-into", "gwb-out", "lincoln-into", "lincoln-out",
      "holland-into", "holland-out">>

CACHE_TTL == 10 * 60 * 1000

\* trafficCache.refreshPromise is null, undefined (the property is absent) or
\* a promise, named by the refreshTrafficData run it was derived from
NullPromise == [kind |-> "null"]
UndefinedPromise == [kind |-> "undefined"]
PromiseOf(r) == [kind |-> "promise", run |-> r]

getStatus(waitTime) ==
    IF waitTime <= 15 THEN [status |-> "Light", statusClass |-> "good"]
    ELSE IF waitTime <= 25 THEN [status |-> "Moderate", statusClass |-> "moderate"]
    ELSE [status |-> "Heavy", statusClass |-> "heavy"]

\* The answers of the Directions API to one batch, as the coordinator's
\* environment: all crossings answer, or the first one is over its quota.
OkResponse ==
    [kind |-> "json", status |-> "OK",
     routes |-> << <<Leg(Some(400), 300), Leg(Null, 320)>> >>]

QuotaResponse == [kind |-> "json", status |-> "OVER_QUERY_LIMIT", routes |-> <<>>]

\* Without a key the request carries key=undefined, which the API refuses
DeniedResponse == [kind |-> "json", status |-> "REQUEST_DENIED", routes |-> <<>>]

ResponseVectors ==
    IF isConfigured
    THEN { [i \in 1..Len(ROUTES) |-> OkResponse],
           [i \in 1..Len(ROUTES) |-> IF i = 1 THEN QuotaResponse ELSE OkResponse] }
    ELSE { [i \in 1..Len(ROUTES) |-> DeniedResponse] }

\* Which insert of a refresh throws, as an index into results (0: none)
InsertThrowSamples == {0, 1}

\* The loop of refreshTrafficData over results from index i on: every result
\* with a wait time is inserted; throwAt is the index whose insert throws
\* (0: no insert throws).  Gives the table and whether the loop threw.
RECURSIVE StoreReadings(_, _, _, _)
StoreReadings(rows, res, i, throwAt) ==
    IF i > Len(res) THEN [rows |-> rows, threw |-> FALSE]
    ELSE IF res[i].waitTime # Null
         THEN IF i = throwAt THEN [rows |-> rows, threw |-> TRUE]
              ELSE StoreReadings(
                       addReading(rows, res[i].crossingId,
                                  TheValue(res[i].waitTime), res[i].timestamp),
                       res, i + 1, throwAt)
         ELSE StoreReadings(rows, res, i + 1, throwAt)

\* ReplacedCache keeping the timestamp of the cache it replaces
ReplacedCacheOldStamp(res, at) ==
    [data |-> Some(res), lastUpdated |-> trafficCache.lastUpdated,
     refreshPromise |-> UndefinedPromise]

\* ReplacedCache that sets the timestamp and keeps the data it finds
ReplacedCacheStampOnly(res, at) ==
    [data |-> trafficCache.data, lastUpdated |-> Some(at),
     refreshPromise |-> UndefinedPromise]

\* trafficCache = { data: results, lastUpdated: new Date() }: the new object
\* has no refreshPromise property
ReplacedCache(res, at) ==
    [data |-> Some(res), lastUpdated |-> Some(at),
     refreshPromise |-> UndefinedPromise]

\* AfterFinally without the callback: the marker is left as it is
AfterFinallyKeepsMarker(cache, origin) == cache

\* .finally(() => { trafficCache.refreshPromise = null; }), which only the
\* promise made by getCurrentTraffic carries
AfterFinally(cache, origin) ==
    IF origin = "getCurrentTraffic"
    THEN [cache EXCEPT !.refreshPromise = NullPromise]
    ELSE cache

\* getCurrentTraffic: const cacheAge = ...
CacheAge(cache, at) ==
    IF cache.lastUpdated # Null THEN Some(at - TheValue(cache.lastUpdated))
    ELSE Null   \* Infinity

\* IsFresh with the comparison inverted
IsFreshInverted(cache, at) ==
    /\ cache.data # Null
    /\ CacheAge(cache, at) # Null
    /\ TheValue(CacheAge(cache, at)) > CACHE_TTL

\* getCurrentTraffic: trafficCache.data && cacheAge < CACHE_TTL
IsFresh(cache, at) ==
    /\ cache.data # Null
    /\ CacheAge(cache, at) # Null
    /\ TheValue(CacheAge(cache, at)) < CACHE_TTL

\* GET /api/crossings: the entry of the response for one crossing; the
\* waitTime '--' of an unknown entry is written {}
CrossingEntry(crossing, trafficData, cache, at) ==
    LET found == {i \in 1..Len(trafficData) : trafficData[i].crossingId = crossing}
        trafficResult == IF found = {} THEN Null
                         ELSE Some(trafficData[CHOOSE i \in found :
                                                \A j \in found : i <= j])
        waitTime == IF trafficResult = Null THEN Null
                    ELSE TheValue(trafficResult).waitTime
        updatedAt == IF cache.lastUpdated # Null THEN TheValue(cache.lastUpdated)
                     ELSE at
    IN  IF waitTime = Null
        THEN [id |-> crossing, waitTime |-> Null, status |-> "Unknown",
              statusClass |-> "unknown", updatedAt |-> updatedAt,
              error |-> IF trafficResult = Null THEN Null
                        ELSE TheValue(trafficResult).error]
        ELSE [id |-> crossing, waitTime |-> waitTime,
              status |-> getStatus(TheValue(waitTime)).status,
              statusClass |-> getStatus(TheValue(waitTime)).statusClass,
              updatedAt |-> updatedAt, error |-> Null]

\* CrossingsBody that leaves out the crossings without a wait time
CrossingsBodyKnownOnly(trafficData, cache, at) ==
    LET IsKnown(entry) == entry.status # "Unknown"
    IN  SelectSeq([i \in 1..Len(CROSSINGS) |->
                      CrossingEntry(CROSSINGS[i], trafficData, cache, at)],
                  IsKnown)

\* GET /api/crossings: CROSSINGS.map over the traffic data
CrossingsBody(trafficData, cache, at) ==
    [i \in 1..Len(CROSSINGS) |-> CrossingEntry(CROSSINGS[i], trafficData, cache, at)]

\* GET /api/crossings without an API key: Math.floor(Math.random() * 31), the
\* random number given in thousandths
MockDelayOffByOne(random) == (random * 32) \div 1000

MockDelay(random) == (random * 31) \div 1000

MockEntry(crossing, random, at) ==
    LET waitTime == 10 + MockDelay(random)
    IN  [id |-> crossing, waitTime |-> Some(waitTime),
         status |-> getStatus(waitTime).status,
         statusClass |-> getStatus(waitTime).statusClass,
         updatedAt |-> at, error |-> Null]

\* The six draws of Math.random() of one mock response, in thousandths
RandomVectors ==
    { [i \in 1..Len(CROSSINGS) |-> 0],
      [i \in 1..Len(CROSSINGS) |-> 999],
      [i \in 1..Len(CROSSINGS) |-> (i * 499) % 1000] }

----------------------------------------------------------------------------
(* The coordinator as a state machine.  A handler runs from one await to   *)
(* the next without interleaving; when the last fetch of a batch resolves, *)
(* the rest of refreshTrafficData, the .finally callback and the resumed   *)
(* awaits all run in the same drain of the microtask queue.                *)

\* No request to the history, readings or stats routes has been answered yet
NoReply ==
    [seq |-> 0, route |-> "none", request |-> <<>>, statusCode |-> 0,
     error |-> Null, data |-> <<>>]

EmptyCache == [data |-> Null, lastUpdated |-> Null, refreshPromise |-> NullPromise]

\* app.js as the page is loaded: no manual refresh yet, no cooldown
PageLoaded ==
    /\ refreshTimestamps = <<>>
    /\ cooldownUntil = {}
    /\ refreshBtn = [disabled |-> FALSE]
    /\ cooldownTimers = {}
    /\ manualCalls = 0
    /\ manualFetches = <<>>

PendingRuns == {r \in 1..Len(runs) : runs[r].st = "pending"}

\* A call of refreshTrafficData(), up to its await: the batch is started.
\* before remembers the cache this run started from, and whether another
\* run was in progress then.
NewRun(origin) ==
    [origin |-> origin, st |-> "pending",
     before |-> [data |-> trafficCache.data,
                 lastUpdated |-> trafficCache.lastUpdated,
                 inFlight |-> PendingRuns # {}]]

\* A run that has ended: its promise is fulfilled or rejected
SettledRun(origin, ok) ==
    [origin |-> origin, st |-> IF ok THEN "fulfilled" ELSE "rejected"]

\* A row an earlier process has left in the table
OldReading ==
    [id |-> 1, crossing_id |-> "gwb-into", wait_time |-> 20, recorded_at |-> 0]

Init ==
    /\ configured = TRUE
    /\ now = StartMs
    /\ trafficCache = EmptyCache
    \* if (traffic.isConfigured()) { refreshTrafficData()...; setInterval(...) }
    /\ runs = <<[origin |-> "startup", st |-> "pending",
                 before |-> [data |-> Null, lastUpdated |-> Null,
                             inFlight |-> FALSE]]>>
    /\ nextTick = Some(StartMs + CACHE_TTL)
    /\ requests = <<>>
    /\ readings = <<>>
    /\ settled = Null
    /\ batch = NoBatch
    /\ reply = NoReply
    /\ PageLoaded

\* A request that has been answered: statusCode is 200 or 500
Answered(path, trafficData, body, code) ==
    [path |-> path, awaiting |-> 0, statusCode |-> code,
     trafficData |-> trafficData, body |-> body]

\* A request suspended in getCurrentTraffic on the promise of run r
Suspended(path, r) ==
    [path |-> path, awaiting |-> r, statusCode |-> 0,
     trafficData |-> Null, body |-> <<>>]

\* GET /api/crossings, the branch without an API key
MockCrossings ==
    /\ \E random \in RandomVectors :
         requests' = Append(requests,
             Answered("mock", Null,
                      [i \in 1..Len(CROSSINGS) |->
                          MockEntry(CROSSINGS[i], random[i], now)],
                      200))
    /\ UNCHANGED <<trafficCache, runs>>

\* getCurrentTraffic, as called by GET /api/crossings
getCurrentTraffic ==
    IF IsFresh(trafficCache, now)
    THEN \* return trafficCache.data
         /\ requests' = Append(requests,
                Answered("cached", trafficCache.data,
                         CrossingsBody(TheValue(trafficCache.data), trafficCache, now),
                         200))
         /\ UNCHANGED <<trafficCache, runs>>
    ELSE IF trafficCache.refreshPromise.kind = "promise"
    THEN \* return await trafficCache.refreshPromise
         /\ requests' = Append(requests,
                Suspended("joined", trafficCache.refreshPromise.run))
         /\ UNCHANGED <<trafficCache, runs>>
    ELSE \* trafficCache.refreshPromise = refreshTrafficData().finally(...)
         /\ Len(runs) < MaxRuns
         /\ runs' = Append(runs, NewRun("getCurrentTraffic"))
         /\ trafficCache' = [trafficCache EXCEPT
                                !.refreshPromise = PromiseOf(Len(runs) + 1)]
         /\ requests' = Append(requests, Suspended("started", Len(runs) + 1))

\* GET /api/crossings
GetCrossings ==
    /\ Len(requests) < MaxRequests
    /\ IF ~isConfigured THEN MockCrossings ELSE getCurrentTraffic
    /\ UNCHANGED <<clientVars, configured, now, nextTick, readings, settled, batch, reply>>

\* POST /api/refresh: await refreshTrafficData()
AdminRefresh ==
    /\ Len(runs) < MaxRuns
    /\ runs' = Append(runs, NewRun("admin"))
    /\ UNCHANGED <<clientVars, configured, now, nextTick, trafficCache, requests, readings,
                   settled, batch, reply>>

\* SchedulerTick of a timer that a failed refresh stops
SchedulerTickStopsOnFailure ==
    /\ nextTick # Null
    /\ now >= TheValue(nextTick)
    /\ \A r \in 1..Len(runs) : runs[r].st # "rejected"
    /\ Len(runs) < MaxRuns
    /\ runs' = Append(runs, NewRun("interval"))
    /\ nextTick' = Some(TheValue(nextTick) + CACHE_TTL)
    /\ UNCHANGED <<clientVars, configured, now, trafficCache, requests, readings,
                   settled, batch, reply>>

\* The setInterval callback: refreshTrafficData().catch(...)
SchedulerTick ==
    /\ nextTick # Null
    /\ now >= TheValue(nextTick)
    /\ Len(runs) < MaxRuns
    /\ runs' = Append(runs, NewRun("interval"))
    /\ nextTick' = Some(TheValue(nextTick) + CACHE_TTL)
    /\ UNCHANGED <<clientVars, configured, now, trafficCache, requests, readings,
                   settled, batch, reply>>

\* Resume where a rejection reaches only the request that started the run
ResumeStarterOnly(reqs, r, ok, res, cache) ==
    [q \in 1..Len(reqs) |->
        IF reqs[q].statusCode = 0 /\ reqs[q].awaiting = r
        THEN IF ok
             THEN [reqs[q] EXCEPT !.statusCode = 200,
                                  !.trafficData = Some(res),
                                  !.body = CrossingsBody(res, cache, now)]
             ELSE IF reqs[q].path = "started"
                  THEN [reqs[q] EXCEPT !.statusCode = 500]
                  ELSE reqs[q]
        ELSE reqs[q]]

\* Resume where a rejection is answered from the cache when it has data
ResumeWithStale(reqs, r, ok, res, cache) ==
    [q \in 1..Len(reqs) |->
        IF reqs[q].statusCode = 0 /\ reqs[q].awaiting = r
        THEN IF ok \/ cache.data # Null
             THEN [reqs[q] EXCEPT
                      !.statusCode = 200,
                      !.trafficData = IF ok THEN Some(res) ELSE cache.data,
                      !.body = CrossingsBody(IF ok THEN res ELSE TheValue(cache.data),
                                             cache, now)]
             ELSE [reqs[q] EXCEPT !.statusCode = 500]
        ELSE reqs[q]]

\* Resume where a rejected promise resumes nobody
ResumeOnSuccessOnly(reqs, r, ok, res, cache) ==
    [q \in 1..Len(reqs) |->
        IF reqs[q].statusCode = 0 /\ reqs[q].awaiting = r /\ ok
        THEN [reqs[q] EXCEPT !.statusCode = 200,
                             !.trafficData = Some(res),
                             !.body = CrossingsBody(res, cache, now)]
        ELSE reqs[q]]

\* The requests suspended on run r resume: with the results, or in the catch
Resume(reqs, r, ok, res, cache) ==
    LET body == IF ok THEN CrossingsBody(res, cache, now) ELSE <<>>
    IN  [q \in 1..Len(reqs) |->
            IF reqs[q].statusCode = 0 /\ reqs[q].awaiting = r
            THEN IF ok
                 THEN [reqs[q] EXCEPT !.statusCode = 200,
                                      !.trafficData = Some(res),
                                      !.body = body]
                 ELSE [reqs[q] EXCEPT !.statusCode = 500]
            ELSE reqs[q]]

\* RefreshSettle with the cache replaced before the loop of inserts: an
\* insert that throws leaves the new results in the cache
RefreshSettlePublishesFirst(r, res, stored) ==
    LET ok == ~stored.threw
    IN  \E cache \in {AfterFinally(ReplacedCache(res, now), runs[r].origin)} :
            /\ readings' = stored.rows
            /\ trafficCache' = cache
            /\ runs' = [runs EXCEPT ![r] = SettledRun(runs[r].origin, ok)]
            /\ settled' = Some([run |-> r, ok |-> ok,
                                results |-> IF ok THEN Some(res) ELSE Null])
            /\ requests' = Resume(requests, r, ok, res, cache)
            /\ UNCHANGED <<clientVars, configured, now, nextTick, batch, reply>>

\* The batch of run r has come back with res, and refreshTrafficData runs to
\* its end: stored is what its loop of inserts made of the table
RefreshSettle(r, res, stored) ==
    LET ok == ~stored.threw
    IN  \E cache \in {AfterFinally(IF ok THEN ReplacedCache(res, now)
                                    ELSE trafficCache,
                                    runs[r].origin)} :
            /\ readings' = stored.rows
            /\ trafficCache' = cache
            /\ runs' = [runs EXCEPT ![r] = SettledRun(runs[r].origin, ok)]
            /\ settled' = Some([run |-> r, ok |-> ok,
                                results |-> IF ok THEN Some(res) ELSE Null])
            /\ requests' = Resume(requests, r, ok, res, cache)
            /\ UNCHANGED <<clientVars, configured, now, nextTick, batch, reply>>

\* The inserts of refreshTrafficData for res, where the insert at one of
\* throwPoints may throw
StoreOutcomes(res, throwPoints) ==
    {StoreReadings(readings, res, 1, throwAt) :
        throwAt \in {t \in throwPoints : t # 0 => res[t].waitTime # Null}}

\* The six answers of the batch of run r arrive within the current period
\* of the clock
CompleteRun(r) ==
    /\ r \in PendingRuns
    /\ \E responses \in ResponseVectors :
          \E res \in {fetchAllTravelTimes(responses,
                                           [i \in 1..Len(ROUTES) |-> now])} :
              \E stored \in StoreOutcomes(res, InsertThrowSamples) :
                  RefreshSettle(r, res, stored)

CompleteRefresh == \E r \in PendingRuns : CompleteRun(r)

AdvanceClock ==
    /\ now < StartMs + MaxClockSteps * ClockStep
    /\ now' = now + ClockStep
    /\ UNCHANGED <<clientVars, configured, nextTick, trafficCache, runs, requests, readings,
                   settled, batch, reply>>

Next ==
    \/ GetCrossings
    \/ AdminRefresh
    \/ SchedulerTick
    \/ CompleteRefresh
    \/ AdvanceClock

Spec == Init /\ [][Next]_vars

\* The server with its timers and its environment at work: the event loop
\* runs a timer callback that is due, time passes, and every fetch of the
\* Directions API comes back, so that every batch comes to its end.
NextLive ==
    \/ GetCrossings
    \/ SchedulerTick
    \/ CompleteRefresh
    \/ AdvanceClock

SpecLive ==
    /\ Init
    /\ [][NextLive]_vars
    /\ WF_vars(SchedulerTick)
    /\ WF_vars(AdvanceClock)
    /\ \A r \in 1..MaxRuns : WF_vars(CompleteRun(r))

----------------------------------------------------------------------------
(* The server without an API key: no startup fetch and no timer *)

InitMock ==
    /\ configured = FALSE
    /\ now = StartMs
    /\ trafficCache = EmptyCache
    /\ runs = <<>>
    /\ nextTick = Null
    /\ requests = <<>>
    /\ readings \in {<<>>, <<OldReading>>}
    /\ settled = Null
    /\ batch = NoBatch
    /\ reply = NoReply
    /\ PageLoaded

NextMock ==
    \/ GetCrossings
    \/ AdminRefresh
    \/ CompleteRefresh
    \/ AdvanceClock

SpecMock == InitMock /\ [][NextMock]_vars

----------------------------------------------------------------------------
(* One forced refresh followed crossing by crossing *)

InitFetch ==
    /\ configured = TRUE
    /\ now = StartMs
    /\ trafficCache = EmptyCache
    /\ runs = <<>>
    /\ nextTick = Null
    /\ requests = <<>>
    /\ readings \in {<<>>, <<OldReading>>}
    /\ settled = Null
    /\ batch = NoBatch
    /\ reply = NoReply
    /\ PageLoaded

\* POST /api/refresh: refreshTrafficData calls fetchAllTravelTimes
RefreshStart ==
    /\ runs = <<>>
    /\ runs' = <<NewRun("admin")>>
    /\ batch' = NewBatch
    /\ UNCHANGED <<clientVars, configured, now, nextTick, trafficCache, requests, readings,
                   settled, reply>>

\* The API answers for the next crossing and the loop takes one turn
FetchNextCrossing ==
    /\ batch.crossingIds # <<>>
    /\ ~batch.threw
    /\ \E response \in ResponseSamples :
         batch' = LoopTurn(batch, response, now)
    /\ UNCHANGED <<clientVars, configured, now, nextTick, trafficCache, runs, requests,
                   readings, settled, reply>>

\* fetchAllTravelTimes returns results and refreshTrafficData runs to its end
RefreshFromBatch ==
    /\ 1 \in PendingRuns
    /\ batch.crossingIds = <<>>
    /\ ~batch.threw
    /\ \E stored \in StoreOutcomes(batch.results, 0..Len(ROUTES)) :
         RefreshSettle(1, batch.results, stored)

NextFetch ==
    \/ RefreshStart
    \/ FetchNextCrossing
    \/ RefreshFromBatch
    \/ AdvanceClock

SpecFetch == InitFetch /\ [][NextFetch]_vars

----------------------------------------------------------------------------
(* db.js: the queries.  recorded_at is the local time of a row in seconds; *)
(* second 0 is 1970-01-01 00:00:00, a Thursday.                            *)

\* strftime('%w', recorded_at): the day of the week, 0 is Sunday
DayOfWeek(recordedAt) == ((recordedAt \div 86400) + 4) % 7

\* strftime('%H', recorded_at)
HourOf(recordedAt) == (recordedAt \div 3600) % 24

\* RowsOf without the WHERE clause
RowsOfAnyCrossing(rows, crossingId) == 1..Len(rows)

\* WHERE crossing_id = ?
RowsOf(rows, crossingId) ==
    {k \in 1..Len(rows) : rows[k].crossing_id = crossingId}

RECURSIVE SumWaitTime(_, _)
SumWaitTime(rows, ks) ==
    IF ks = {} THEN 0
    ELSE LET k == CHOOSE x \in ks : TRUE
         IN  rows[k].wait_time + SumWaitTime(rows, ks \ {k})

\* getHeatmapData.all(crossingId): one row per group of (day_of_week, hour),
\* ordered by day_of_week, hour
getHeatmapData(rows, crossingId) ==
    LET selected == RowsOf(rows, crossingId)
        KeyOf(k) == DayOfWeek(rows[k].recorded_at) * 24 + HourOf(rows[k].recorded_at)
        keys == {KeyOf(k) : k \in selected}
        Group(key) == {k \in selected : KeyOf(k) = key}
        Nth(i) == CHOOSE key \in keys : Cardinality({j \in keys : j < key}) = i - 1
    IN  [i \in 1..Cardinality(keys) |->
            [day_of_week |-> Nth(i) \div 24,
             hour |-> Nth(i) % 24,
             avg_time |-> RoundDiv(SumWaitTime(rows, Group(Nth(i))),
                                   Cardinality(Group(Nth(i)))),
             sample_count |-> Cardinality(Group(Nth(i)))]]

\* dayOrder in the order of strftime('%w')
dayOrderSundayFirst == <<0, 1, 2, 3, 4, 5, 6>>

dayOrder == <<1, 2, 3, 4, 5, 6, 0>>
dayNames == <<"Mon", "Tue", "Wed", "Thu", "Fri", "Sat", "Sun">>
hours == [h \in 1..24 |-> h - 1]

\* `${displayHour}${ampm}`
HourLabel(hour) ==
    LET displayHour == IF hour = 0 THEN 12 ELSE IF hour > 12 THEN hour - 12 ELSE hour
        ampm == IF hour >= 12 THEN "pm" ELSE "am"
    IN  ToString(displayHour) \o ampm

\* One heatmap.push of getHistoricalData; displayIndex counts from 0
HeatmapCell(found, displayIndex, hour) ==
    LET matching == {i \in 1..Len(found) :
                        /\ found[i].day_of_week = dayOrder[displayIndex + 1]
                        /\ found[i].hour = hour}
        row == IF matching = {} THEN Null
               ELSE Some(found[CHOOSE i \in matching : \A j \in matching : i <= j])
    IN  [day |-> dayNames[displayIndex + 1],
         dayIndex |-> displayIndex,
         hour |-> hour,
         avgTime |-> IF row # Null THEN Some(TheValue(row).avg_time) ELSE Null,
         sampleCount |-> IF row # Null THEN TheValue(row).sample_count ELSE 0,
         label |-> HourLabel(hour)]

\* getHistoricalData: dayOrder.forEach over hours.forEach
getHistoricalData(rows, crossingId) ==
    LET found == getHeatmapData(rows, crossingId)
    IN  [hours |-> hours,
         days |-> dayNames,
         heatmap |-> [n \in 1..(Len(dayOrder) * Len(hours)) |->
                         HeatmapCell(found, (n - 1) \div Len(hours),
                                     hours[((n - 1) % Len(hours)) + 1])]]

\* getLatest: ... ORDER BY recorded_at DESC LIMIT 1.  The rows that the
\* statement may give: none for a crossing without rows ({} is undefined),
\* and any of the newest when several rows share the newest recorded_at
getLatest(rows, crossingId) ==
    {[wait_time |-> rows[k].wait_time, recorded_at |-> rows[k].recorded_at] :
        k \in {i \in RowsOf(rows, crossingId) :
                  \A j \in RowsOf(rows, crossingId) :
                      rows[j].recorded_at <= rows[i].recorded_at}}

\* getCount: SELECT COUNT(*) FROM readings WHERE crossing_id = ?
getCount(rows, crossingId) == Cardinality(RowsOf(rows, crossingId))

----------------------------------------------------------------------------
(* server.js: the history, readings and stats routes.  A value of a JSON   *)
(* body is a record of its type and content; a number is kept in tenths.   *)

JsUndefined == [type |-> "undefined", tenths |-> 0, text |-> ""]
JsNull == [type |-> "null", tenths |-> 0, text |-> ""]
JsNumber(tenths) == [type |-> "number", tenths |-> tenths, text |-> ""]
JsString(text) == [type |-> "string", tenths |-> 0, text |-> text]
JsBoolean(flag) ==
    [type |-> "boolean", tenths |-> IF flag THEN 10 ELSE 0,
     text |-> IF flag THEN "true" ELSE "false"]

\* !value
Falsy(value) ==
    \/ value.type \in {"undefined", "null"}
    \/ value.type = "number" /\ value.tenths = 0
    \/ value.type = "string" /\ value.text = ""
    \/ value.type = "boolean" /\ value.tenths = 0

\* Number(text) for the strings of the sampled bodies; {} is NaN
StringToNumber(text) ==
    CASE text = "" -> Some(0)
      [] text = "15" -> Some(150)
      [] text = "301" -> Some(3010)
      [] OTHER -> Null

\* Number(value), in tenths; {} is NaN
Number(value) ==
    CASE value.type = "number" -> Some(value.tenths)
      [] value.type = "boolean" -> Some(value.tenths)
      [] value.type = "null" -> Some(0)
      [] value.type = "string" -> StringToNumber(value.text)
      [] OTHER -> Null

\* Number.isInteger
IsInteger(number) == number # Null /\ TheValue(number) % 10 = 0

ADMIN_API_KEY == "admin-key"

\* requireAdminKey: next() is called
requireAdminKey(apiKey) == apiKey # Null /\ TheValue(apiKey) = ADMIN_API_KEY

PostedCrossingIds ==
    {JsUndefined, JsNumber(10), JsString(""), JsString("nowhere"),
     JsString("gwb-into"), JsString("holland-out")}

PostedWaitTimes ==
    {JsUndefined, JsNull, JsNumber(-10), JsNumber(0), JsNumber(125),
     JsNumber(3000), JsNumber(3010), JsString(""), JsString("15"),
     JsString("301"), JsString("abc"), JsBoolean(TRUE)}

PostRequest(apiKey, crossingId, waitTime, insertThrows) ==
    [apiKey |-> apiKey, crossingId |-> crossingId, waitTime |-> waitTime,
     insertThrows |-> insertThrows]

\* The POST /api/readings requests of the model
PostedRequests ==
    {PostRequest(apiKey, JsString("gwb-into"), JsNumber(120), FALSE) :
        apiKey \in {Null, Some("guess")}}
    \cup {PostRequest(Some(ADMIN_API_KEY), crossingId, JsNumber(120), FALSE) :
            crossingId \in PostedCrossingIds}
    \cup {PostRequest(Some(ADMIN_API_KEY), JsString("gwb-into"), waitTime, FALSE) :
            waitTime \in PostedWaitTimes}
    \cup {PostRequest(Some(ADMIN_API_KEY), JsString("gwb-into"), JsNumber(120), TRUE)}

\* The GET /api/crossings/:id/history requests of the model
HistoryIds == {"gwb-into", "holland-out", "nowhere"}

MaxReplies == 2         \* requests to the history, readings and stats routes

\* What POST /api/readings answers, and the wait time it inserts ({}: none)
postReadings(request) ==
    LET waitTimeNum == Number(request.waitTime)
        Refused(code, message) ==
            [statusCode |-> code, error |-> Some(message), insert |-> Null]
    IN  IF ~requireAdminKey(request.apiKey)
        THEN Refused(401, "Unauthorized: Invalid or missing API key")
        ELSE IF Falsy(request.crossingId) \/ request.crossingId.type # "string"
        THEN Refused(400, "crossingId is required and must be a string")
        ELSE IF \A i \in 1..Len(CROSSINGS) : CROSSINGS[i] # request.crossingId.text
        THEN Refused(400, "Invalid crossingId")
        ELSE IF request.waitTime.type \in {"undefined", "null"}
        THEN Refused(400, "waitTime is required")
        ELSE IF \/ ~IsInteger(waitTimeNum)
                \/ TheValue(waitTimeNum) < 0
                \/ TheValue(waitTimeNum) > 3000
        THEN Refused(400, "waitTime must be an integer between 0 and 300 minutes")
        ELSE IF request.insertThrows
        THEN \* db.addReading throws: the default error handler answers
             Refused(500, "Internal Server Error")
        ELSE [statusCode |-> 200, error |-> Null,
              insert |-> Some(TheValue(waitTimeNum) \div 10)]

\* PostReading that marks the cache as out of date when it stores a row
PostReadingInvalidates ==
    /\ reply.seq < MaxReplies
    /\ \E request \in PostedRequests :
         \E outcome \in {postReadings(request)} :
            /\ readings' = IF outcome.insert = Null THEN readings
                           ELSE addReading(readings, request.crossingId.text,
                                           TheValue(outcome.insert), now)
            /\ trafficCache' = IF outcome.insert = Null THEN trafficCache
                               ELSE [trafficCache EXCEPT !.lastUpdated = Null]
            /\ reply' = [seq |-> reply.seq + 1, route |-> "readings",
                         request |-> request, statusCode |-> outcome.statusCode,
                         error |-> outcome.error, data |-> <<>>]
    /\ UNCHANGED <<clientVars, configured, now, nextTick, runs, requests, settled, batch>>

\* POST /api/readings
PostReading ==
    /\ reply.seq < MaxReplies
    /\ \E request \in PostedRequests :
         \E outcome \in {postReadings(request)} :
            /\ readings' = IF outcome.insert = Null THEN readings
                           ELSE addReading(readings, request.crossingId.text,
                                           TheValue(outcome.insert), now)
            /\ reply' = [seq |-> reply.seq + 1, route |-> "readings",
                         request |-> request, statusCode |-> outcome.statusCode,
                         error |-> outcome.error, data |-> <<>>]
    /\ UNCHANGED <<clientVars, configured, now, nextTick, trafficCache, runs, requests,
                   settled, batch>>

\* GET /api/crossings/:id/history
GetHistory ==
    /\ reply.seq < MaxReplies
    /\ \E crossingId \in HistoryIds :
         reply' = IF \A i \in 1..Len(CROSSINGS) : CROSSINGS[i] # crossingId
                  THEN [seq |-> reply.seq + 1, route |-> "history",
                        request |-> crossingId, statusCode |-> 400,
                        error |-> Some("Invalid crossing ID"), data |-> <<>>]
                  ELSE [seq |-> reply.seq + 1, route |-> "history",
                        request |-> crossingId, statusCode |-> 200,
                        error |-> Null,
                        data |-> getHistoricalData(readings, crossingId)]
    /\ UNCHANGED <<clientVars, configured, now, nextTick, trafficCache, runs, requests,
                   readings, settled, batch>>

\* GetStats that reports an age of 0 while the cache has no timestamp
GetStatsZeroWhenUnset ==
    /\ reply.seq < MaxReplies
    /\ reply' = [seq |-> reply.seq + 1, route |-> "stats", request |-> <<>>,
                 statusCode |-> 200, error |-> Null,
                 data |-> [crossings |->
                              [i \in 1..Len(CROSSINGS) |->
                                  [id |-> CROSSINGS[i],
                                   readingCount |-> getCount(readings, CROSSINGS[i])]],
                           apiConfigured |-> isConfigured,
                           cacheAge |->
                              IF trafficCache.lastUpdated # Null
                              THEN Some(RoundDiv(now - TheValue(trafficCache.lastUpdated),
                                                 1000))
                              ELSE Some(0)]]
    /\ UNCHANGED <<clientVars, configured, now, nextTick, trafficCache, runs, requests,
                   readings, settled, batch>>

\* GET /api/stats
GetStats ==
    /\ reply.seq < MaxReplies
    /\ reply' = [seq |-> reply.seq + 1, route |-> "stats", request |-> <<>>,
                 statusCode |-> 200, error |-> Null,
                 data |-> [crossings |->
                              [i \in 1..Len(CROSSINGS) |->
                                  [id |-> CROSSINGS[i],
                                   readingCount |-> getCount(readings, CROSSINGS[i])]],
                           apiConfigured |-> isConfigured,
                           cacheAge |->
                              IF trafficCache.lastUpdated # Null
                              THEN Some(RoundDiv(now - TheValue(trafficCache.lastUpdated),
                                                 1000))
                              ELSE Null]]
    /\ UNCHANGED <<clientVars, configured, now, nextTick, trafficCache, runs, requests,
                   readings, settled, batch>>

----------------------------------------------------------------------------
(* The store and its routes beside one start of the server: the startup    *)
(* refresh, reads of the crossings, and requests to the history, readings  *)
(* and stats routes, over a table that earlier runs of the server filled.  *)
(* MaxReplies stays below the 10 requests per window of strictLimiter.     *)

HourMs == 60 * 60 * 1000
DayMs == 24 * HourMs

\* Monday 08:59:59.999 and Sunday 23:59:59.999 of the first week
MondayEightMs == 4 * DayMs + 8 * HourMs + (HourMs - 1)
SundayNightMs == 3 * DayMs + 23 * HourMs + (HourMs - 1)

\* When the server is started
StoreStarts == {StartMs, MondayEightMs, SundayNightMs}

\* Two readings of one crossing and one of another, all on a Monday at 8
MondayStore ==
    addReading(
        addReading(
            addReading(<<>>, "gwb-into", 10, 4 * DayMs + 8 * HourMs),
            "holland-out", 50, 4 * DayMs + 8 * HourMs + 600000),
        "gwb-into", 13, 11 * DayMs + 8 * HourMs + 1800000)

\* The table as earlier runs of the server left it
StoredSamples == {<<>>, MondayStore}

InitStore ==
    /\ configured = TRUE
    /\ now \in StoreStarts
    /\ trafficCache = EmptyCache
    /\ runs = <<[origin |-> "startup", st |-> "pending",
                 before |-> [data |-> Null, lastUpdated |-> Null,
                             inFlight |-> FALSE]]>>
    /\ nextTick = Some(now + CACHE_TTL)
    /\ requests = <<>>
    /\ readings \in StoredSamples
    /\ settled = Null
    /\ batch = NoBatch
    /\ reply = NoReply
    /\ PageLoaded

NextStore ==
    \/ PostReading
    \/ GetHistory
    \/ GetStats
    \/ CompleteRefresh
    \/ AdvanceClock

SpecStore == InitStore /\ [][NextStore]_vars

\* The same routes beside the reads of the crossings, from the start of Init
NextFrame ==
    \/ NextStore
    \/ GetCrossings

SpecFrame == Init /\ [][NextFrame]_vars

----------------------------------------------------------------------------
(* The stats route beside forced refreshes, with the clock also moving by  *)
(* a second and a half, so that the age of the cache is not a whole number *)
(* of seconds.                                                             *)

SecondsStep == 1500     \* a short advance of the clock, in ms
MaxSecondsSteps == 1    \* short advances between two long ones

\* Time passes by SecondsStep
PassSeconds ==
    /\ (now - StartMs) % ClockStep < MaxSecondsSteps * SecondsStep
    /\ now' = now + SecondsStep
    /\ UNCHANGED <<clientVars, configured, nextTick, trafficCache, runs, requests, readings,
                   settled, batch, reply>>

NextStats ==
    \/ GetStats
    \/ AdminRefresh
    \/ CompleteRefresh
    \/ AdvanceClock
    \/ PassSeconds

SpecStats == Init /\ [][NextStats]_vars

----------------------------------------------------------------------------
(* app.js: the limiter of manual refreshes in the page.  now is the clock   *)
(* of the browser.  manualRefresh is the listener of the button's click;    *)
(* whether a click reaches it while refreshBtn.disabled is set is left to   *)
(* the page, so a call may come at any time.                                *)

REFRESH_LIMIT == 3
REFRESH_WINDOW == 60 * 1000
COOLDOWN_TIME == 30 * 1000

ClientStep == 10000     \* one advance of the browser's clock, in ms
MaxClientTicks == 10    \* how many times the browser's clock advances
MaxManualCalls == 8     \* calls of manualRefresh in one behaviour

\* The browser's clock stops here; no call comes so late that a cooldown it
\* starts could not end
ClientEnd == StartMs + MaxClientTicks * ClientStep

\* canRefresh(): what it returns, and the two variables as it leaves them
canRefresh(at) ==
    IF cooldownUntil # Null /\ at < TheValue(cooldownUntil)
    THEN [can |-> FALSE, cooldownUntil |-> cooldownUntil,
          refreshTimestamps |-> refreshTimestamps]
    ELSE LET expired == cooldownUntil # Null /\ at >= TheValue(cooldownUntil)
             InWindow(t) == at - t < REFRESH_WINDOW
             kept == SelectSeq(IF expired THEN <<>> ELSE refreshTimestamps,
                               InWindow)
         IN  [can |-> Len(kept) < REFRESH_LIMIT,
              cooldownUntil |-> IF expired THEN Null ELSE cooldownUntil,
              refreshTimestamps |-> kept]

\* recordRefresh that never starts a cooldown
recordRefreshNoCooldown(stamps, until, at) ==
    [refreshTimestamps |-> Append(stamps, at),
     cooldownUntil |-> until,
     startCooldownTimer |-> FALSE]

\* recordRefresh(), after a canRefresh() that left stamps and until: the
\* variables as it leaves them, and whether it calls startCooldownTimer
recordRefresh(stamps, until, at) ==
    LET pushed == Append(stamps, at)
    IN  IF Len(pushed) >= REFRESH_LIMIT
        THEN [refreshTimestamps |-> pushed,
              cooldownUntil |-> Some(at + COOLDOWN_TIME),
              startCooldownTimer |-> TRUE]
        ELSE [refreshTimestamps |-> pushed,
              cooldownUntil |-> until,
              startCooldownTimer |-> FALSE]

\* Math.ceil((cooldownUntil - Date.now()) / 1000) > 0; null counts as 0
Remaining(until, at) == until # Null /\ TheValue(until) - at > 0

\* manualRefresh(): if (!canRefresh()) return; recordRefresh();
\* fetchCrossings().  startCooldownTimer disables the button and runs
\* updateCooldown once, which sets the first timeout.
ManualRefresh ==
    /\ manualCalls < MaxManualCalls
    /\ now + COOLDOWN_TIME <= ClientEnd
    /\ manualCalls' = manualCalls + 1
    /\ \E checked \in {canRefresh(now)} :
          IF ~checked.can
          THEN /\ refreshTimestamps' = checked.refreshTimestamps
               /\ cooldownUntil' = checked.cooldownUntil
               /\ UNCHANGED <<refreshBtn, cooldownTimers, manualFetches>>
          ELSE \E recorded \in {recordRefresh(checked.refreshTimestamps,
                                              checked.cooldownUntil, now)} :
                  /\ refreshTimestamps' = recorded.refreshTimestamps
                  /\ cooldownUntil' = recorded.cooldownUntil
                  /\ manualFetches' = Append(manualFetches, now)
                  /\ IF recorded.startCooldownTimer
                     THEN /\ refreshBtn' = [refreshBtn EXCEPT !.disabled = TRUE]
                          /\ cooldownTimers' = cooldownTimers \cup {now + 1000}
                     ELSE UNCHANGED <<refreshBtn, cooldownTimers>>
    /\ UNCHANGED <<configured, now, nextTick, trafficCache, runs, requests,
                   readings, settled, batch, reply>>

\* A timeout set by updateCooldown is due and the callback runs: it sets the
\* next timeout while the cooldown lasts, and enables the button after it
UpdateCooldown ==
    /\ \E due \in cooldownTimers :
          /\ now >= due
          /\ IF Remaining(cooldownUntil, now)
             THEN /\ cooldownTimers' = (cooldownTimers \ {due}) \cup {now + 1000}
                  /\ UNCHANGED refreshBtn
             ELSE /\ cooldownTimers' = cooldownTimers \ {due}
                  /\ refreshBtn' = [refreshBtn EXCEPT !.disabled = FALSE]
    /\ UNCHANGED <<refreshTimestamps, cooldownUntil, manualCalls, manualFetches>>
    /\ UNCHANGED <<configured, now, nextTick, trafficCache, runs, requests,
                   readings, settled, batch, reply>>

\* The browser's clock advances
ClientTick ==
    /\ now < ClientEnd
    /\ now' = now + ClientStep
    /\ UNCHANGED <<clientVars, configured, nextTick, trafficCache, runs,
                   requests, readings, settled, batch, reply>>

\* The page beside a server without an API key, which no step of the page
\* changes
InitPage ==
    /\ configured = FALSE
    /\ now = StartMs
    /\ trafficCache = EmptyCache
    /\ runs = <<>>
    /\ nextTick = Null
    /\ requests = <<>>
    /\ readings = <<>>
    /\ settled = Null
    /\ batch = NoBatch
    /\ reply = NoReply
    /\ PageLoaded

NextClient ==
    \/ ManualRefresh
    \/ UpdateCooldown
    \/ ClientTick

SpecClient == InitPage /\ [][NextClient]_vars

\* The page with time passing and the browser running the timeouts that
\* are due
SpecClientLive ==
    /\ InitPage
    /\ [][NextClient]_vars
    /\ WF_vars(ClientTick)
    /\ WF_vars(UpdateCooldown)

----------------------------------------------------------------------------
(* Properties *)

\* The runs that end in this step, fulfilled or rejected
Fulfilling == {r \in PendingRuns : runs'[r].st = "fulfilled"}
Rejecting == {r \in PendingRuns : runs'[r].st = "rejected"}

\* The requests suspended on run r
WaitingOn(r) ==
    {q \in 1..Len(requests) : requests[q].statusCode = 0 /\ requests[q].awaiting = r}

\* C1: when a getCurrentTraffic call finds the cache stale with no refresh in
\* flight and starts one, every later call that finds the cache stale before
\* that refresh ends awaits the same refresh (one batch for all of them), and
\* the calls that awaited one refresh all got the same answer.
C1_OneBatchForAllCallers ==
    /\ \A q1, q2 \in 1..Len(requests) :
          ( /\ q1 < q2
            /\ requests[q1].path = "started"
            /\ requests[q1].statusCode = 0
            /\ ~runs[requests[q1].awaiting].before.inFlight
            /\ requests[q2].path \in {"started", "joined"} )
          => requests[q2].awaiting = requests[q1].awaiting
    /\ \A q1, q2 \in 1..Len(requests) :
          ( /\ requests[q1].awaiting # 0
            /\ requests[q1].awaiting = requests[q2].awaiting
            /\ requests[q1].statusCode # 0
            /\ requests[q2].statusCode # 0 )
          => /\ requests[q1].statusCode = requests[q2].statusCode
             /\ requests[q1].trafficData = requests[q2].trafficData

\* C2: at most one refreshTrafficData run is in flight in every state.
C2_AtMostOneRefreshInFlight == Cardinality(PendingRuns) <= 1

\* C3: a GET /api/crossings made while the cache has data younger than ten
\* minutes is answered at once with the cached data; it starts no run, awaits
\* no promise and leaves the cache, marker included, as it was.
C3_FreshReadServedFromCache ==
    [][ ( /\ Len(requests') = Len(requests) + 1
          /\ configured
          /\ trafficCache.data # Null
          /\ trafficCache.lastUpdated # Null
          /\ now - TheValue(trafficCache.lastUpdated) < 600000 )
        => /\ requests'[Len(requests')].statusCode = 200
           /\ requests'[Len(requests')].trafficData = trafficCache.data
           /\ requests'[Len(requests')].awaiting = 0
           /\ trafficCache' = trafficCache
           /\ runs' = runs ]_vars

C3_Witness ==
    \E q \in 1..Len(requests) :
        /\ requests[q].path = "cached"
        /\ requests[q].statusCode = 200
        /\ requests[q].trafficData = trafficCache.data
        /\ PendingRuns # {}

\* C4: when a run of refreshTrafficData is rejected, the data and timestamp
\* of the cache are what they were when that run started.
C4_FailedRefreshLeavesCacheAsAtStart ==
    [][ \A r \in Rejecting :
           /\ trafficCache'.data = runs[r].before.data
           /\ trafficCache'.lastUpdated = runs[r].before.lastUpdated ]_vars

\* C5: when a run started by getCurrentTraffic is rejected, the request that
\* started it and every request that joined it are answered with the failure
\* (500, no data), and no request stays suspended on a run that has ended.
C5_FailureReachesEveryWaiter ==
    /\ [][ \A r \in Rejecting : \A q \in WaitingOn(r) :
              /\ requests'[q].statusCode = 500
              /\ requests'[q].trafficData = Null ]_vars
    /\ [](\A q \in 1..Len(requests) :
              requests[q].statusCode = 0 => requests[q].awaiting \in PendingRuns)

C5_Witness ==
    \E q1, q2 \in 1..Len(requests) :
        /\ requests[q1].path = "started"
        /\ requests[q2].path = "joined"
        /\ requests[q1].awaiting = requests[q2].awaiting
        /\ requests[q1].statusCode = 500
        /\ requests[q2].statusCode = 500

\* C6 as claimed: when a refresh is rejected while the cache holds data, the
\* requests waiting on it are answered with that stale data, not an error.
C6_StaleDataInsteadOfError ==
    [][ \A r \in Rejecting : \A q \in WaitingOn(r) :
           trafficCache.data # Null
           => /\ requests'[q].statusCode = 200
              /\ requests'[q].trafficData = trafficCache.data ]_vars

\* C6 as amended: when a refresh is rejected while the cache holds data, the
\* stale data and its timestamp stay in the cache, but the requests waiting
\* on that refresh are answered with the error (500), not with the data.
C6_StaleDataKeptErrorReturned ==
    [][ \A r \in Rejecting :
           trafficCache.data # Null
           => /\ trafficCache'.data = trafficCache.data
              /\ trafficCache'.lastUpdated = trafficCache.lastUpdated
              /\ \A q \in WaitingOn(r) :
                    /\ requests'[q].statusCode = 500
                    /\ requests'[q].trafficData = Null ]_vars

C6_Witness ==
    /\ trafficCache.data # Null
    /\ settled # Null
    /\ ~TheValue(settled).ok
    /\ \E q \in 1..Len(requests) :
          /\ requests[q].awaiting = TheValue(settled).run
          /\ requests[q].statusCode = 500

\* The rows a step has appended to the table
Added == SubSeq(readings', Len(readings) + 1, Len(readings'))

\* C7: a refresh that succeeds appends to the table one row for each result
\* with a wait time, carrying that wait time and the local time, to the
\* second, of that result's timestamp, and no row for a result that is an
\* error; the rows already there stay.
C7_SuccessfulRefreshPersistsReadings ==
    [][ Fulfilling # {}
        => /\ Len(readings') >= Len(readings)
           /\ SubSeq(readings', 1, Len(readings)) = readings
           /\ \A i \in 1..Len(batch.results) :
                 LET result == batch.results[i]
                     rows == {k \in 1..Len(Added) :
                                 Added[k].crossing_id = result.crossingId}
                 IN  IF result.waitTime = Null THEN rows = {}
                     ELSE /\ Cardinality(rows) = 1
                          /\ \A k \in rows :
                                /\ Added[k].wait_time = TheValue(result.waitTime)
                                /\ Added[k].recorded_at * 1000 <= result.timestamp
                                /\ result.timestamp < (Added[k].recorded_at + 1) * 1000
           /\ \A k \in 1..Len(Added) :
                 \E i \in 1..Len(batch.results) :
                     Added[k].crossing_id = batch.results[i].crossingId ]_vars

\* A failing, B at 12 minutes fetched one clock step before the refresh ends:
\* only B and the crossings after it are in the table
C7_Witness ==
    /\ runs # <<>>
    /\ runs[1].st = "fulfilled"
    /\ batch.results[1].waitTime = Null
    /\ batch.results[2].waitTime = Some(12)
    /\ batch.results[2].timestamp < now
    /\ \E k \in 1..Len(readings) :
          /\ readings[k].crossing_id = "gwb-out"
          /\ readings[k].wait_time = 12
    /\ \A k \in 1..Len(readings) :
          readings[k].crossing_id = "gwb-into" => readings[k] = OldReading

\* C8: a refresh that succeeds leaves its result set in the cache with the
\* time of its end as timestamp; the timestamp never decreases and changes
\* in no other step.
C8_CacheFollowsSuccessfulRefresh ==
    [][ /\ Fulfilling # {}
           => /\ settled' # Null
              /\ trafficCache'.data = TheValue(settled').results
              /\ trafficCache'.data # Null
              /\ trafficCache'.lastUpdated = Some(now')
        /\ trafficCache.lastUpdated # Null
           => /\ trafficCache'.lastUpdated # Null
              /\ TheValue(trafficCache'.lastUpdated)
                    >= TheValue(trafficCache.lastUpdated)
        /\ trafficCache'.lastUpdated # trafficCache.lastUpdated
           => Fulfilling # {} ]_vars

C8_Witness ==
    /\ settled # Null
    /\ TheValue(settled).ok
    /\ trafficCache.data = TheValue(settled).results
    /\ trafficCache.lastUpdated = Some(StartMs + ClockStep)
    /\ \E r \in 1..Len(runs) : runs[r].st = "rejected"

\* Whether the API's answer for a crossing makes fetchTravelTime succeed
Succeeds(response) ==
    /\ response.kind = "json"
    /\ response.status = "OK"
    /\ response.routes # <<>>
    /\ response.routes[1] # <<>>

\* C9: fetchAllTravelTimes never throws; its results follow ROUTES in order,
\* one entry per crossing answered so far, six at its end; a crossing whose
\* fetch succeeds has a wait time and no error, one whose fetch fails has a
\* null wait time and an error message, and the loop goes on after it.
C9_FetchAllNeverFails ==
    /\ ~batch.threw
    /\ Len(batch.results) = Len(batch.served)
    /\ batch # NoBatch =>
          /\ Len(batch.results) + Len(batch.crossingIds) = 6
          /\ batch.crossingIds = SubSeq(ROUTES, Len(batch.results) + 1, Len(ROUTES))
    /\ \A i \in 1..Len(batch.results) :
          /\ batch.results[i].crossingId = ROUTES[i]
          /\ IF Succeeds(batch.served[i])
             THEN /\ batch.results[i].waitTime # Null
                  /\ batch.results[i].error = Null
             ELSE /\ batch.results[i].waitTime = Null
                  /\ batch.results[i].error # Null
                  /\ batch.served[i].kind = "throw"
                     => batch.results[i].error = Some(batch.served[i].message)
    /\ (settled # Null /\ TheValue(settled).ok)
          => /\ Len(TheValue(TheValue(settled).results)) = 6
             /\ TheValue(TheValue(settled).results) = batch.results

C9_Witness ==
    /\ batch.crossingIds = <<>>
    /\ Len(batch.results) = 6
    /\ batch.results[1].waitTime = Null
    /\ batch.results[1].error = Some("API error: OVER_QUERY_LIMIT")
    /\ batch.results[2].waitTime = Some(12)
    /\ batch.results[5].waitTime = Null
    /\ batch.results[6].waitTime # Null

\* C10: without an API key a GET /api/crossings is answered by the mock
\* branch: it awaits no promise, starts no run, answers 200 with one entry
\* per crossing of CROSSINGS, in order, each with an integer wait time from
\* 10 to 40, and leaves the cache and the table as they were.
C10_MockReadTouchesNothing ==
    [][ (Len(requests') = Len(requests) + 1 /\ ~configured)
        => /\ requests'[Len(requests')].path = "mock"
           /\ requests'[Len(requests')].awaiting = 0
           /\ requests'[Len(requests')].statusCode = 200
           /\ Len(requests'[Len(requests')].body) = 6
           /\ \A i \in 1..6 :
                 /\ requests'[Len(requests')].body[i].id = CROSSINGS[i]
                 /\ requests'[Len(requests')].body[i].waitTime # Null
                 /\ TheValue(requests'[Len(requests')].body[i].waitTime) \in 10..40
           /\ trafficCache' = trafficCache
           /\ readings' = readings
           /\ runs' = runs ]_vars

C10_Witness ==
    /\ trafficCache.data # Null
    /\ readings # <<>>
    /\ PendingRuns # {}
    /\ \E q \in 1..Len(requests) :
          /\ requests[q].path = "mock"
          /\ requests[q].body[1].waitTime = Some(25)
          /\ requests[q].body[2].waitTime = Some(40)

\* C11: while no API key is configured, no operation starts a run of
\* refreshTrafficData, that is, a batch of fetches from the Directions API.
C11_NoFetchWhenUnconfigured == ~configured => runs = <<>>

\* A step in which GET /api/crossings/:id/history answers for a known crossing
HistoryAnswered ==
    /\ reply'.seq = reply.seq + 1
    /\ reply'.route = "history"
    /\ \E i \in 1..Len(CROSSINGS) : CROSSINGS[i] = reply'.request

\* The stored readings of a crossing in one (day of week, hour) bucket
ReadingsIn(crossingId, dbDay, hour) ==
    {k \in 1..Len(readings) :
        /\ readings[k].crossing_id = crossingId
        /\ DayOfWeek(readings[k].recorded_at) = dbDay
        /\ HourOf(readings[k].recorded_at) = hour}

\* C12: for a known crossing and any table, the history answer has 168
\* cells, the cell of display day d (0 is Monday) and hour h at place
\* 24 * d + h; it stands for the rows of day of week (d + 1) mod 7, and a
\* cell without rows has a null avgTime and sampleCount 0.
C12_HistoryHas168Cells ==
    [][ HistoryAnswered
        => /\ reply'.statusCode = 200
           /\ Len(reply'.data.heatmap) = 168
           /\ \A d \in 0..6 : \A h \in 0..23 :
                 LET cell == reply'.data.heatmap[24 * d + h + 1]
                 IN  /\ cell.dayIndex = d
                     /\ cell.hour = h
                     /\ IF ReadingsIn(reply'.request, (d + 1) % 7, h) = {}
                        THEN cell.avgTime = Null /\ cell.sampleCount = 0
                        ELSE cell.avgTime # Null /\ cell.sampleCount > 0 ]_vars

\* Empty table: 168 empty cells; and a Sunday row shows in display day 6
C12_Witness ==
    /\ reply.route = "history"
    /\ reply.statusCode = 200
    /\ \/ /\ readings = <<>>
          /\ Len(reply.data.heatmap) = 168
          /\ \A n \in 1..168 : /\ reply.data.heatmap[n].avgTime = Null
                               /\ reply.data.heatmap[n].sampleCount = 0
       \/ /\ reply.data.heatmap[24 * 6 + 23 + 1].sampleCount = 1
          /\ reply.data.heatmap[24 * 6 + 23 + 1].day = "Sun"

\* C13: in the history answer for a crossing, the sampleCount of a cell is
\* the number of that crossing's rows in the cell's bucket, and its avgTime
\* is the mean of their wait times rounded to the nearest integer; the rows
\* of other crossings do not count.
C13_CellsAggregateOwnReadings ==
    [][ HistoryAnswered
        => \A d \in 0..6 : \A h \in 0..23 :
              LET cell == reply'.data.heatmap[24 * d + h + 1]
                  rs == ReadingsIn(reply'.request, (d + 1) % 7, h)
                  total == SumWaitTime(readings, rs)
              IN  /\ cell.sampleCount = Cardinality(rs)
                  /\ rs # {} =>
                        /\ cell.avgTime # Null
                        /\ 2 * (TheValue(cell.avgTime) * Cardinality(rs) - total)
                              <= Cardinality(rs)
                        /\ 2 * (total - TheValue(cell.avgTime) * Cardinality(rs))
                              <= Cardinality(rs) ]_vars

\* Rows on Monday at 8 only, 10 and 13 minutes, and one of another crossing:
\* one cell, display day 0 and hour 8, with count 2 and mean 12
C13_Witness ==
    /\ reply.route = "history"
    /\ reply.request = "gwb-into"
    /\ readings = MondayStore
    /\ reply.data.heatmap[8 + 1].sampleCount = 2
    /\ reply.data.heatmap[8 + 1].avgTime = Some(12)
    /\ \A n \in 1..168 : n # 9 => reply.data.heatmap[n].sampleCount = 0

\* A step in which POST /api/readings answers a request that carries the
\* admin key and whose insert, if it comes to one, does not fail
ReadingSubmitted ==
    /\ reply'.seq = reply.seq + 1
    /\ reply'.route = "readings"
    /\ reply'.request.apiKey = Some(ADMIN_API_KEY)
    /\ ~reply'.request.insertThrows

\* The submission names one of the six crossings and an integer wait time
\* from 0 to 300, given as a number or in decimal digits
WellFormedReading(request) ==
    /\ request.crossingId.type = "string"
    /\ request.crossingId.text \in RouteIds
    /\ \/ /\ request.waitTime.type = "number"
          /\ request.waitTime.tenths % 10 = 0
          /\ request.waitTime.tenths \in 0..3000
       \/ /\ request.waitTime.type = "string"
          /\ request.waitTime.text \in {"15"}

\* C14: a submitted reading is accepted, and one row is appended for it, if
\* and only if its crossing id is one of the six and its wait time is an
\* integer from 0 to 300; a refused submission leaves the table as it was.
C14_ReadingAcceptedIffValid ==
    [][ ReadingSubmitted
        => IF WellFormedReading(reply'.request)
           THEN /\ reply'.statusCode = 200
                /\ Len(readings') = Len(readings) + 1
                /\ SubSeq(readings', 1, Len(readings)) = readings
                /\ readings'[Len(readings')].crossing_id = reply'.request.crossingId.text
           ELSE /\ reply'.statusCode # 200
                /\ readings' = readings ]_vars

\* C15: every successful answer of GET /api/crossings with an API key has
\* one entry per crossing of CROSSINGS, in that order; a crossing whose
\* result has no wait time is still there, with wait time unknown, status
\* "Unknown" and the error of its result, and the others carry their wait
\* time.
C15_EveryCrossingInOutput ==
    \A q \in 1..Len(requests) :
        (requests[q].statusCode = 200 /\ requests[q].path # "mock")
        => /\ Len(requests[q].body) = 6
           /\ requests[q].trafficData # Null
           /\ \A i \in 1..6 :
                 LET entry == requests[q].body[i]
                     results == TheValue(requests[q].trafficData)
                     own == {j \in 1..Len(results) :
                                results[j].crossingId = CROSSINGS[i]}
                 IN  /\ entry.id = CROSSINGS[i]
                     /\ IF \A j \in own : results[j].waitTime = Null
                        THEN /\ entry.waitTime = Null
                             /\ entry.status = "Unknown"
                             /\ entry.statusClass = "unknown"
                             /\ \A j \in own : entry.error = results[j].error
                        ELSE /\ \A j \in own : entry.waitTime = results[j].waitTime
                             /\ entry.status \in {"Light", "Moderate", "Heavy"}

C15_Witness ==
    \E q \in 1..Len(requests) :
        /\ requests[q].statusCode = 200
        /\ requests[q].path \in {"started", "joined"}
        /\ requests[q].body[1].status = "Unknown"
        /\ requests[q].body[1].error = Some("API error: OVER_QUERY_LIMIT")
        /\ requests[q].body[2].waitTime = Some(12)
        /\ requests[q].body[6].id = "holland-out"

\* The run that trafficCache.refreshPromise denotes in a cache, if any
MarkedRun(cache) ==
    IF cache.refreshPromise.kind = "promise" THEN {cache.refreshPromise.run} ELSE {}

\* C17: the marker that getCurrentTraffic sets for a run stays in the cache,
\* denoting that run, for as long as the run is in progress.
C17_MarkerHeldWhileRunning ==
    [][ \A r \in PendingRuns :
           (r \in MarkedRun(trafficCache) /\ runs'[r].st = "pending")
           => r \in MarkedRun(trafficCache') ]_vars

\* C18: when a run started by getCurrentTraffic ends, fulfilled or rejected,
\* the marker is cleared; and the next GET /api/crossings that finds the
\* cache stale, the marker still clear, starts a new run and waits for it
\* instead of being answered with the outcome of the run that has ended.
C18_MarkerClearedThenRetry ==
    [][ /\ \A r \in Fulfilling \cup Rejecting :
              runs[r].origin = "getCurrentTraffic"
              => trafficCache'.refreshPromise = NullPromise
        /\ ( /\ Len(requests') = Len(requests) + 1
             /\ configured
             /\ settled # Null
             /\ runs[TheValue(settled).run].origin = "getCurrentTraffic"
             /\ MarkedRun(trafficCache) = {}
             /\ \/ trafficCache.data = Null
                \/ trafficCache.lastUpdated = Null
                \/ now - TheValue(trafficCache.lastUpdated) >= 600000 )
           => /\ Len(runs') = Len(runs) + 1
              /\ runs'[Len(runs')].st = "pending"
              /\ requests'[Len(requests')].statusCode = 0
              /\ requests'[Len(requests')].awaiting = Len(runs')
              /\ MarkedRun(trafficCache') = {Len(runs')} ]_vars

\* A read was answered 500 by a failed run, and a later read has started
\* the retry
C18_Witness ==
    \E q1, q2 \in 1..Len(requests) :
        /\ requests[q1].path = "started"
        /\ requests[q1].statusCode = 500
        /\ requests[q2].path = "started"
        /\ requests[q2].awaiting > requests[q1].awaiting
        /\ runs[requests[q1].awaiting].st = "rejected"

\* C20: a request to the history, stats or readings route, and a GET
\* /api/crossings that finds the cache fresh, leave the cache (data,
\* timestamp and marker) as it was and start no run of refreshTrafficData;
\* the data and timestamp of the cache change only in a step in which a run
\* of refreshTrafficData is fulfilled.
C20_OnlyRefreshChangesCache ==
    [][ /\ ( \/ reply'.seq = reply.seq + 1
             \/ /\ Len(requests') = Len(requests) + 1
                /\ trafficCache.data # Null
                /\ trafficCache.lastUpdated # Null
                /\ now - TheValue(trafficCache.lastUpdated) < 600000 )
           => /\ trafficCache' = trafficCache
              /\ runs' = runs
              /\ batch' = batch
        /\ ( \/ trafficCache'.data # trafficCache.data
             \/ trafficCache'.lastUpdated # trafficCache.lastUpdated )
           => Fulfilling # {} ]_vars

\* A reading was stored and a fresh read answered while the cache held data
\* and a later refresh was marked as in progress
C20_Witness ==
    /\ trafficCache.data # Null
    /\ MarkedRun(trafficCache) # {}
    /\ reply.route = "readings"
    /\ reply.statusCode = 200
    /\ Len(readings) > 6
    /\ \E q \in 1..Len(requests) : requests[q].path = "cached"

\* The callbacks of the timer that have run
IntervalRuns == {r \in 1..Len(runs) : runs[r].origin = "interval"}

\* C16: with an API key a refresh is started at startup, and the timer stays
\* set with a fixed period of ten minutes, whatever the outcome of earlier
\* refreshes and whether or not a read arrives: for every period that the
\* clock of the model passes, a refresh is eventually started by the timer
\* (or the model's budget of runs is used up).
C16_SchedulerKeepsRefreshing ==
    /\ [](/\ runs # <<>>
          /\ runs[1].origin = "startup"
          /\ nextTick = Some(StartMs + (Cardinality(IntervalRuns) + 1) * CACHE_TTL))
    /\ \A k \in 1..MaxClockSteps :
          <>(Cardinality(IntervalRuns) >= k \/ Len(runs) = MaxRuns)

\* The startup refresh has failed and the timer has started the next one
C16_Witness ==
    /\ runs[1].st = "rejected"
    /\ requests = <<>>
    /\ Cardinality(IntervalRuns) = MaxClockSteps
    /\ \E r \in IntervalRuns : runs[r].st = "pending"

\* C19: every GET /api/crossings that waits in getCurrentTraffic, as the
\* starter of a refresh or joined to one, is eventually answered, with the
\* results or with the failure, given that every batch of fetches ends.
C19_EveryCallerCompletes ==
    \A q \in 1..MaxRequests :
        (Len(requests) >= q /\ requests[q].statusCode = 0)
        ~> (Len(requests) >= q /\ requests[q].statusCode \in {200, 500})

\* A starter and a joiner have both waited and both been answered
C19_Witness ==
    \E q1, q2 \in 1..Len(requests) :
        /\ requests[q1].path = "started"
        /\ requests[q2].path = "joined"
        /\ requests[q1].statusCode # 0
        /\ requests[q2].statusCode # 0

\* C21: the table is append-only.  In every step of refreshes, submitted
\* readings and queries, the rows already in the table stay, unchanged and
\* in place, so the count of every crossing never decreases; and a step that
\* answers the history or the stats route leaves the table as it was.
C21_StoreIsAppendOnly ==
    [][ /\ Len(readings') >= Len(readings)
        /\ SubSeq(readings', 1, Len(readings)) = readings
        /\ \A crossingId \in RouteIds :
              getCount(readings', crossingId) >= getCount(readings, crossingId)
        /\ (reply'.seq = reply.seq + 1 /\ reply'.route \in {"history", "stats"})
              => readings' = readings ]_vars

\* A refresh has stored its six rows, a reading of 300 minutes was submitted
\* for a crossing that had a row, and the history was read after it
C21_Witness ==
    /\ Len(readings) = 7
    /\ readings[1].crossing_id = "gwb-into"
    /\ readings[1].wait_time = 12
    /\ readings[7].crossing_id = "gwb-into"
    /\ readings[7].wait_time = 300
    /\ [wait_time |-> 300, recorded_at |-> readings[7].recorded_at]
          \in getLatest(readings, "gwb-into")
    /\ getCount(readings, "gwb-into") = 2
    /\ reply.route = "history"
    /\ reply.statusCode = 200

\* A step in which GET /api/stats answers
StatsAnswered ==
    /\ reply'.seq = reply.seq + 1
    /\ reply'.route = "stats"

\* C22: GET /api/stats reports a null cacheAge exactly when no refresh has
\* succeeded so far; otherwise it reports a number that is not negative, the
\* time since the last refresh that succeeded, rounded to whole seconds.
\* That time is the timestamp of the cache, which a refresh that succeeds
\* sets to the time of its end and which no other step, a refresh that fails
\* included, changes.
C22_StatsAgeSinceLastSuccess ==
    [][ /\ StatsAnswered
           => /\ reply'.data.cacheAge = Null
                    <=> \A r \in 1..Len(runs) : runs[r].st # "fulfilled"
              /\ reply'.data.cacheAge # Null
                    => /\ TheValue(reply'.data.cacheAge) >= 0
                       /\ trafficCache.lastUpdated # Null
                       /\ 1000 * TheValue(reply'.data.cacheAge) - 500
                             <= now - TheValue(trafficCache.lastUpdated)
                       /\ now - TheValue(trafficCache.lastUpdated)
                             < 1000 * TheValue(reply'.data.cacheAge) + 500
        /\ Fulfilling # {} => trafficCache'.lastUpdated = Some(now')
        /\ Fulfilling = {} => trafficCache'.lastUpdated = trafficCache.lastUpdated
      ]_vars

\* The startup refresh succeeded, a forced refresh failed a second and a
\* half later, and the stats report the age of the first: 1.5 s, rounded to 2
C22_Witness ==
    /\ reply.route = "stats"
    /\ reply.data.cacheAge = Some(2)
    /\ now = StartMs + SecondsStep
    /\ trafficCache.lastUpdated = Some(StartMs)
    /\ runs[1].st = "fulfilled"
    /\ settled # Null
    /\ ~TheValue(settled).ok
    /\ PendingRuns = {}

\* C23: in every state, each entry of the cached results that has a wait
\* time has a row in the table with its crossing, its wait time and the
\* local time, to the second, of its timestamp: the results of a refresh are
\* in the cache only after all their rows have been written.
C23_PersistedBeforePublished ==
    trafficCache.data # Null
    => \A i \in 1..Len(TheValue(trafficCache.data)) :
          LET result == TheValue(trafficCache.data)[i]
          IN  result.waitTime # Null
              => \E k \in 1..Len(readings) :
                    /\ readings[k].crossing_id = result.crossingId
                    /\ readings[k].wait_time = TheValue(result.waitTime)
                    /\ readings[k].recorded_at * 1000 <= result.timestamp
                    /\ result.timestamp < (readings[k].recorded_at + 1) * 1000

\* The cache holds results fetched over two periods of the clock, the first
\* an error and the second at 12 minutes, and the table has the rows
C23_Witness ==
    /\ trafficCache.data # Null
    /\ TheValue(trafficCache.data)[1].waitTime = Null
    /\ TheValue(trafficCache.data)[2].waitTime = Some(12)
    /\ TheValue(trafficCache.data)[2].timestamp = StartMs
    /\ TheValue(trafficCache.data)[6].waitTime = Some(12)
    /\ TheValue(trafficCache.data)[6].timestamp = StartMs + ClockStep
    /\ \E k \in 1..Len(readings) :
          /\ readings[k].crossing_id = "holland-out"
          /\ readings[k].recorded_at = (StartMs + ClockStep) \div 1000

\* C26: in every state the data and the timestamp of the cache are both
\* null or both set; and a step that changes either of them is the end of a
\* refresh that succeeds and leaves both set, the data being the results of
\* that refresh and the timestamp the time of that step.
C26_DataAndTimestampTogether ==
    /\ [](trafficCache.data = Null <=> trafficCache.lastUpdated = Null)
    /\ [][ ( \/ trafficCache'.data # trafficCache.data
             \/ trafficCache'.lastUpdated # trafficCache.lastUpdated )
           => /\ Fulfilling # {}
              /\ trafficCache'.data # Null
              /\ trafficCache'.data = TheValue(settled').results
              /\ trafficCache'.lastUpdated = Some(now') ]_vars

\* The cache was filled by one refresh and replaced, ten minutes later, by
\* another whose first crossing failed
C26_Witness ==
    /\ trafficCache.data # Null
    /\ trafficCache.lastUpdated = Some(StartMs + ClockStep)
    /\ TheValue(trafficCache.data)[1].waitTime = Null
    /\ TheValue(trafficCache.data)[1].timestamp = StartMs + ClockStep
    /\ \E r1, r2 \in 1..Len(runs) :
          /\ r1 # r2
          /\ runs[r1].st = "fulfilled"
          /\ runs[r2].st = "fulfilled"
    /\ \E k \in 1..Len(readings) :
          readings[k].crossing_id = "gwb-into" /\ readings[k].recorded_at = 0

\* The manual refreshes made in the window of REFRESH_WINDOW that starts at
\* the refresh numbered i
FetchesInWindowFrom(i) ==
    {j \in 1..Len(manualFetches) :
        /\ manualFetches[i] <= manualFetches[j]
        /\ manualFetches[j] < manualFetches[i] + REFRESH_WINDOW}

\* C24: whatever the clicks and the clock, at most REFRESH_LIMIT = 3 manual
\* refreshes are made within any window of REFRESH_WINDOW = 1 minute.
C24_AtMostThreePerWindow ==
    \A i \in 1..Len(manualFetches) :
        Cardinality(FetchesInWindowFrom(i)) <= REFRESH_LIMIT

\* A step in which manualRefresh is called
ManualCalled == manualCalls' = manualCalls + 1

\* The cooldown is on: canRefresh() returns false at its first test
InCooldown == cooldownUntil # Null /\ now < TheValue(cooldownUntil)

\* C25: the manual refresh that is the third one recorded in
\* refreshTimestamps, all three within REFRESH_WINDOW, starts a cooldown of
\* COOLDOWN_TIME = 30 s, and nothing else starts one; a call of
\* manualRefresh during the cooldown makes no fetch and records nothing; a
\* call after the cooldown has expired makes a fetch; and every cooldown
\* leads to a state in which canRefresh() returns true and the button is
\* enabled, given that time passes and the timeouts run.
C25_CooldownThenAllowedAgain ==
    /\ [][ ManualCalled
           => /\ ( /\ Len(manualFetches') > Len(manualFetches)
                   /\ Len(refreshTimestamps') >= REFRESH_LIMIT )
                 => /\ cooldownUntil' = Some(now + COOLDOWN_TIME)
                    /\ Len(refreshTimestamps') = REFRESH_LIMIT
                    /\ \A i \in 1..Len(refreshTimestamps') :
                          now - refreshTimestamps'[i] < REFRESH_WINDOW
              /\ (cooldownUntil' # Null /\ cooldownUntil' # cooldownUntil)
                 => /\ Len(manualFetches') > Len(manualFetches)
                    /\ Len(refreshTimestamps') >= REFRESH_LIMIT
              /\ InCooldown
                 => /\ manualFetches' = manualFetches
                    /\ refreshTimestamps' = refreshTimestamps
                    /\ cooldownUntil' = cooldownUntil
              /\ (cooldownUntil # Null /\ now >= TheValue(cooldownUntil))
                 => manualFetches' = Append(manualFetches, now) ]_vars
    /\ InCooldown ~> ( /\ ~InCooldown
                       /\ canRefresh(now).can
                       /\ ~refreshBtn.disabled )

\* Three refreshes started a cooldown, a call during it was ignored, the
\* button was enabled again and a fourth refresh was made after the cooldown
C25_Witness ==
    /\ Len(manualFetches) = 4
    /\ manualCalls > Len(manualFetches)
    /\ manualFetches[4] >= manualFetches[3] + COOLDOWN_TIME
    /\ refreshTimestamps = <<manualFetches[4]>>
    /\ cooldownUntil = Null
    /\ ~refreshBtn.disabled
    /\ cooldownTimers = {}

====
